---------------------------- MODULE Spec2Model ----------------------------
(***************************************************************************)
(* Model of the ishortn.ink edge middleware (src/src/middleware.ts) and of *)
(* the lazily created database singletons (src/src/server/db/index.ts).    *)
(*                                                                         *)
(* JavaScript strings are sequences of one-character strings, so that      *)
(* startsWith, endsWith, includes, split, trim, the URL parser, encodeURI  *)
(* and encodeURIComponent are computed character by character.  A value    *)
(* that may be null or undefined is a set: {} when absent, {v} when        *)
(* present.                                                                *)
(***************************************************************************)
EXTENDS Naturals, Sequences, FiniteSets

VARIABLES
  request,      \* the IncomingRequest: scheme, host, pathname, headers, ?geo=
  pc,           \* where the handling of the request stands
  call,         \* the outbound call to /api/link: {} until fetch is issued
  resolver,     \* what the resolution service answered
  data,         \* the parsed JSON body of the resolver's answer
  redirectUrl,  \* middleware.ts local `redirectUrl`: {} until validation passes
  decision,     \* what the middleware returned
  _connection,  \* db/index.ts module variable
  _db,          \* db/index.ts module variable
  created,      \* instances built so far by mysql.createPool and drizzle
  accesses      \* the property reads served by the two proxies, in order

vars == <<request, pc, call, resolver, data, redirectUrl, decision,
          _connection, _db, created, accesses>>

mwVars == <<request, pc, call, resolver, data, redirectUrl, decision>>
dbVars == <<_connection, _db, created, accesses>>

---------------------------------------------------------------------------
(* JavaScript values                                                       *)

None == {}
Some(v) == {v}
Val(o) == CHOOSE v \in o : TRUE

\* JavaScript truthiness of an optional string: null, undefined and "" are falsy.
Truthy(o) == o # None /\ Val(o) # << >>

\* a || b
Or(a, b) == IF Truthy(a) THEN a ELSE b

\* `${v}` in a template literal: undefined is spelled out.
TemplateString(o) == IF o = None THEN <<"u", "n", "d", "e", "f", "i", "n", "e", "d">> ELSE Val(o)

\* a ?? ""
OrEmpty(o) == IF o = None THEN << >> ELSE Val(o)

---------------------------------------------------------------------------
(* String.prototype                                                        *)

StartsWith(s, p) == Len(s) >= Len(p) /\ SubSeq(s, 1, Len(p)) = p

EndsWith(s, p) == Len(s) >= Len(p) /\ SubSeq(s, Len(s) - Len(p) + 1, Len(s)) = p

Includes(s, p) == \E i \in 1..(Len(s) + 1) : StartsWith(SubSeq(s, i, Len(s)), p)

\* s.split(sep).length for a one-character separator
SplitLength(s, sep) == Cardinality({i \in 1..Len(s) : s[i] = sep}) + 1

\* index of the first character of s that is in set cs, Len(s) + 1 when none is
IndexOfAny(s, cs) ==
  IF \E i \in 1..Len(s) : s[i] \in cs
  THEN CHOOSE i \in 1..Len(s) : s[i] \in cs /\ \A j \in 1..(i - 1) : s[j] \notin cs
  ELSE Len(s) + 1

\* s.split(sep)[0]
SplitFirst(s, sep) == SubSeq(s, 1, IndexOfAny(s, {sep}) - 1)

WhiteSpace == {" "}

Trim(s) ==
  IF \A i \in 1..Len(s) : s[i] \in WhiteSpace THEN << >>
  ELSE LET a == CHOOSE i \in 1..Len(s) :
                  s[i] \notin WhiteSpace /\ \A j \in 1..(i - 1) : s[j] \in WhiteSpace
           b == CHOOSE i \in 1..Len(s) :
                  s[i] \notin WhiteSpace /\ \A j \in (i + 1)..Len(s) : s[j] \in WhiteSpace
       IN SubSeq(s, a, b)

UpperLetters == <<"A", "B", "C", "D", "E", "F", "G", "H", "I", "J", "K", "L", "M", "N", "O", "P", "Q", "R", "S", "T", "U", "V", "W", "X", "Y", "Z">>
LowerLetters == <<"a", "b", "c", "d", "e", "f", "g", "h", "i", "j", "k", "l", "m", "n", "o", "p", "q", "r", "s", "t", "u", "v", "w", "x", "y", "z">>
DigitChars == <<"0", "1", "2", "3", "4", "5", "6", "7", "8", "9">>

Range(s) == {s[i] : i \in 1..Len(s)}

IsAlpha(c) == c \in Range(UpperLetters) \cup Range(LowerLetters)
IsDigit(c) == c \in Range(DigitChars)

LowerChar(c) ==
  IF c \in Range(UpperLetters)
  THEN LowerLetters[CHOOSE i \in 1..Len(UpperLetters) : UpperLetters[i] = c]
  ELSE c

ToLowerCase(s) == [i \in 1..Len(s) |-> LowerChar(s[i])]

RECURSIVE Flatten(_)
Flatten(ss) == IF ss = << >> THEN << >> ELSE Head(ss) \o Flatten(Tail(ss))

\* "%XX" for the ASCII characters the model's strings hold outside the
\* unreserved sets of encodeURI / encodeURIComponent.
PercentHex(c) ==
  CASE c = " " -> <<"%", "2", "0">>
    [] c = "#" -> <<"%", "2", "3">>
    [] c = "$" -> <<"%", "2", "4">>
    [] c = "%" -> <<"%", "2", "5">>
    [] c = "&" -> <<"%", "2", "6">>
    [] c = "+" -> <<"%", "2", "B">>
    [] c = "," -> <<"%", "2", "C">>
    [] c = "/" -> <<"%", "2", "F">>
    [] c = ":" -> <<"%", "3", "A">>
    [] c = ";" -> <<"%", "3", "B">>
    [] c = "=" -> <<"%", "3", "D">>
    [] c = "?" -> <<"%", "3", "F">>
    [] c = "@" -> <<"%", "4", "0">>
    [] c = "[" -> <<"%", "5", "B">>
    [] c = "]" -> <<"%", "5", "D">>

UriUnreservedMarks == Range(<<"-", "_", ".", "!", "~", "*", "'", "(", ")">>)
UriReservedChars == Range(<<";", "/", "?", ":", "&", "=", "+", "$", ",", "#">>) \cup {"@"}

\* encodeURI(s): letters, digits, marks and reserved characters are kept.
encodeURI(s) ==
  Flatten([i \in 1..Len(s) |->
    IF IsAlpha(s[i]) \/ IsDigit(s[i]) \/ s[i] \in UriUnreservedMarks \cup UriReservedChars
    THEN <<s[i]>> ELSE PercentHex(s[i])])

\* encodeURIComponent(s): only letters, digits and marks are kept.
encodeURIComponent(s) ==
  Flatten([i \in 1..Len(s) |->
    IF IsAlpha(s[i]) \/ IsDigit(s[i]) \/ s[i] \in UriUnreservedMarks
    THEN <<s[i]>> ELSE PercentHex(s[i])])

---------------------------------------------------------------------------
(* new URL(input, base): the WHATWG URL parser, for ASCII inputs without    *)
(* userinfo, fragment, IPv6 literal, backslash, tab, newline or dot         *)
(* segments (the inputs of this model hold none of these).                  *)

NoURL == [ok |-> FALSE, scheme |-> << >>, host |-> << >>, path |-> << >>]

SpecialSchemes == {<<"h", "t", "t", "p">>, <<"h", "t", "t", "p", "s">>, <<"f", "t", "p">>, <<"w", "s">>, <<"w", "s", "s">>, <<"f", "i", "l", "e">>}

DefaultPort(scheme) ==
  CASE scheme = <<"h", "t", "t", "p">> -> <<"8", "0">>
    [] scheme = <<"h", "t", "t", "p", "s">> -> <<"4", "4", "3">>
    [] scheme = <<"f", "t", "p">> -> <<"2", "1">>
    [] scheme = <<"w", "s">> -> <<"8", "0">>
    [] scheme = <<"w", "s", "s">> -> <<"4", "4", "3">>
    [] OTHER -> << >>

IsSchemeChar(c) == IsAlpha(c) \/ IsDigit(c) \/ c \in {"+", "-", "."}

\* index of the ":" that ends a scheme at the start of s, 0 when s has none
SchemeEnd(s) ==
  LET i == IndexOfAny(s, {":"}) IN
  IF i >= 2 /\ i <= Len(s) /\ IsAlpha(s[1]) /\ \A j \in 2..(i - 1) : IsSchemeChar(s[j])
  THEN i ELSE 0

ForbiddenHostChars == {" ", "#", "/", ":", "<", ">", "?", "@", "[", "\\", "]", "^", "|", "%"}

\* s without its leading slashes
SkipSlashes(s) ==
  IF \A i \in 1..Len(s) : s[i] = "/" THEN << >>
  ELSE SubSeq(s, CHOOSE i \in 1..Len(s) : s[i] # "/" /\ \A j \in 1..(i - 1) : s[j] = "/", Len(s))

\* authority state, host state, port state and path start state of a special
\* scheme: s is what follows the slashes.
ParseAuthority(scheme, s) ==
  LET hostEnd == IndexOfAny(s, {"/", "?"})
      hostPort == SubSeq(s, 1, hostEnd - 1)
      rest == SubSeq(s, hostEnd, Len(s))
      colon == IndexOfAny(hostPort, {":"})
      host == SubSeq(hostPort, 1, colon - 1)
      port == SubSeq(hostPort, colon + 1, Len(hostPort))
  IN IF host = << >> \/ (\E i \in 1..Len(host) : host[i] \in ForbiddenHostChars)
        \/ (\E i \in 1..Len(port) : ~IsDigit(port[i]))
     THEN NoURL
     ELSE [ok |-> TRUE, scheme |-> scheme,
           host |-> ToLowerCase(host) \o
                    (IF port = << >> \/ port = DefaultPort(scheme) THEN << >> ELSE <<":">> \o port),
           path |-> IF rest = << >> \/ rest[1] = "?" THEN <<"/">> \o rest ELSE rest]

\* the pathname of a path-and-query, and its directory (up to the last "/")
PathName(p) == SubSeq(p, 1, IndexOfAny(p, {"?"}) - 1)

Directory(p) ==
  LET n == PathName(p)
  IN SubSeq(n, 1, CHOOSE i \in 1..Len(n) : n[i] = "/" /\ \A j \in (i + 1)..Len(n) : n[j] # "/")

\* relative state: input has no scheme of its own and is resolved against base.
ParseRelative(input, base) ==
  IF StartsWith(input, <<"/", "/">>) THEN ParseAuthority(base.scheme, SkipSlashes(input))
  ELSE IF StartsWith(input, <<"/">>) THEN [base EXCEPT !.path = input]
  ELSE IF input = << >> THEN base
  ELSE IF StartsWith(input, <<"?">>) THEN [base EXCEPT !.path = PathName(base.path) \o input]
  ELSE [base EXCEPT !.path = Directory(base.path) \o input]

\* new URL(input, base); base is None when the constructor gets one argument.
URL(rawInput, base) ==
  LET input == Trim(rawInput)
      colon == SchemeEnd(input)
      scheme == ToLowerCase(SubSeq(input, 1, colon - 1))
      rest == SubSeq(input, colon + 1, Len(input))
  IN IF colon = 0
     THEN IF base = None THEN NoURL ELSE ParseRelative(input, Val(base))
     ELSE IF scheme \in SpecialSchemes
     THEN IF base # None /\ Val(base).scheme = scheme /\ ~StartsWith(rest, <<"/", "/">>)
          THEN ParseRelative(rest, Val(base))
          ELSE ParseAuthority(scheme, SkipSlashes(rest))
     ELSE [ok |-> TRUE, scheme |-> scheme, host |-> << >>, path |-> rest]

\* url.protocol
Protocol(u) == u.scheme \o <<":">>

\* url.toString()
Href(u) ==
  IF u.scheme \in SpecialSchemes THEN u.scheme \o <<":", "/", "/">> \o u.host \o u.path
  ELSE u.scheme \o <<":">> \o u.path

---------------------------------------------------------------------------
(* The requests, environments and resolver answers the model draws from    *)

Origins ==
  { [scheme |-> <<"h", "t", "t", "p", "s">>, host |-> <<"i", "s", "h", "o", "r", "t", "n", ".", "i", "n", "k">>],
    [scheme |-> <<"h", "t", "t", "p">>, host |-> <<"l", "o", "c", "a", "l", "h", "o", "s", "t", ":", "3", "0", "0", "0">>],
    [scheme |-> <<"h", "t", "t", "p">>, host |-> <<"1", "2", "7", ".", "0", ".", "0", ".", "1", ":", "3", "0", "0", "0">>] }

Paths ==
  { <<"/">>, <<"/", "a", "p", "i", "/", "l", "i", "n", "k">>, <<"/", "d", "a", "s", "h", "b", "o", "a", "r", "d">>, <<"/", "d", "a", "s", "h", "b", "o", "a", "r", "d", "/", "l", "i", "n", "k", "s">>, <<"/", "_", "n", "e", "x", "t", "/", "x">>,
    <<"/", "c", "l", "o", "a", "k", "e", "d", "/", "x">>, <<"/", "l", "o", "g", "o", ".", "p", "n", "g">>, <<"/", "f", "a", "v", "i", "c", "o", "n", ".", "i", "c", "o">>, <<"/", "a", ".", "j", "p", "g">>, <<"/", "a", "/", "b">>,
    <<"/", "a", "b", "c", "/">>, <<"/", "a", "b", "c">> }

UserAgents == { None, Some(<<"M", "o", "z", "i", "l", "l", "a", "/", "5", ".", "0">>), Some(<<"T", "w", "i", "t", "t", "e", "r", "b", "o", "t", "/", "1", ".", "0">>) }

Headers ==
  [ userAgent      : UserAgents,                                    \* user-agent
    referer        : { None },                                      \* referer
    xForwardedFor  : { None, Some(<<"1", ".", "2", ".", "3", ".", "4", ",", " ", "5", ".", "6", ".", "7", ".", "8">>) },          \* x-forwarded-for
    xRealIp        : { None, Some(<<"1", "0", ".", "0", ".", "0", ".", "1">>) },                  \* x-real-ip
    cfConnectingIp : { None, Some(<<"9", ".", "9", ".", "9", ".", "9">>) },                   \* cf-connecting-ip
    cfIpcountry    : { None, Some(<<"F", "R">>) },                        \* cf-ipcountry
    awsCountry     : { None, Some(<<"D", "E">>) },                        \* cloudfront-viewer-country
    xGeoCountry    : { None },                                      \* x-geo-country
    cfIpcity       : { None, Some(<<"P", "a", "r", "i", "s">>) },                     \* cf-ipcity
    awsCity        : { None },                                      \* cloudfront-viewer-city
    xGeoCity       : { None } ]                                   \* x-geo-city

\* ?geo=... of the request URL: absent, a known code, an unknown code
GeoParams == { None, Some(<<"B", "R">>), Some(<<"Q", "Q">>) }

Requests ==
  { [scheme |-> o.scheme, host |-> o.host, pathname |-> p, geo |-> g, headers |-> h] :
      o \in Origins, p \in Paths, g \in GeoParams, h \in Headers }

NodeEnvs == { "production", "development" }

Statuses == { 200, 500 }

ResolverUrls ==
  { None,
    Some(<<"h", "t", "t", "p", "s", ":", "/", "/", "e", "x", "a", "m", "p", "l", "e", ".", "c", "o", "m">>),
    Some(<<"H", "T", "T", "P", ":", "/", "/", "E", "x", "a", "m", "p", "l", "e", ".", "c", "o", "m", ":", "8", "0", "/", "a", "?", "b", "=", "c">>),
    Some(<<"j", "a", "v", "a", "s", "c", "r", "i", "p", "t", ":", "a", "l", "e", "r", "t", "(", "1", ")">>),
    Some(<<"d", "a", "t", "a", ":", "t", "e", "x", "t", "/", "h", "t", "m", "l", ",", "x">>),
    Some(<<"f", "t", "p", ":", "/", "/">>),
    Some(<<"e", "x", "a", "m", "p", "l", "e", ".", "c", "o", "m", "/", "p", "a", "g", "e">>),
    Some(<<"/", "/", "e", "v", "i", "l", ".", "c", "o", "m", "/", "x">>),
    Some(<<"/", "/">>) }

ResolutionResults == [ url : ResolverUrls, cloaking : { None, Some(TRUE), Some(FALSE) } ]

---------------------------------------------------------------------------
(* middleware.ts                                                           *)

\* const isProtectedRoute = createRouteMatcher(["/dashboard(.*)"])
isProtectedRoute(req) == StartsWith(req.pathname, <<"/", "d", "a", "s", "h", "b", "o", "a", "r", "d">>)

\* the alternatives of \.(?:html?|css|js(?!on)|jpe?g|...) other than js(?!on)
MatcherExtensions ==
  { <<"h", "t", "m">>, <<"h", "t", "m", "l">>, <<"c", "s", "s">>, <<"j", "p", "g">>, <<"j", "p", "e", "g">>, <<"w", "e", "b", "p">>, <<"g", "i", "f">>, <<"s", "v", "g">>, <<"t", "t", "f">>,
    <<"w", "o", "f", "f">>, <<"w", "o", "f", "f", "2">>, <<"i", "c", "o">>, <<"c", "s", "v">>, <<"d", "o", "c">>, <<"d", "o", "c", "x">>, <<"x", "l", "s">>, <<"x", "l", "s", "x">>, <<"z", "i", "p">>,
    <<"w", "e", "b", "m", "a", "n", "i", "f", "e", "s", "t">> }

\* the negative lookahead of the first matcher, tried on what follows the
\* leading "/"; its alternative ^[^/]+$ cannot match there, "^" being the
\* start of the path.
MatcherLookahead(rest) ==
  \/ StartsWith(rest, <<"_", "n", "e", "x", "t">>)
  \/ StartsWith(rest, <<"f", "a", "v", "i", "c", "o", "n">>)
  \/ \E i \in 1..Len(rest) :
       /\ rest[i] = "."
       /\ LET after == SubSeq(rest, i + 1, Len(rest))
          IN \/ \E e \in MatcherExtensions : StartsWith(after, e)
             \/ StartsWith(after, <<"j", "s">>) /\ ~StartsWith(after, <<"j", "s", "o", "n">>)

\* export const config = { matcher: [...] }: the paths the middleware runs on
configMatcher(pathname) ==
  \/ StartsWith(pathname, <<"/">>) /\ ~MatcherLookahead(SubSeq(pathname, 2, Len(pathname)))
  \/ StartsWith(pathname, <<"/", "a", "p", "i">>)
  \/ StartsWith(pathname, <<"/", "t", "r", "p", "c">>)

\* new URL(request.url)
RequestUrl(req) ==
  [ok |-> TRUE, scheme |-> req.scheme, host |-> req.host,
   path |-> req.pathname \o (IF req.geo = None THEN << >> ELSE <<"?", "g", "e", "o", "=">> \o Val(req.geo))]

Origin(req) == req.scheme \o <<":", "/", "/">> \o req.host

getIpAddress(req) ==
  LET forwardedFor == req.headers.xForwardedFor
      realIp == req.headers.xRealIp
      cfConnectingIp == req.headers.cfConnectingIp
  IN IF Truthy(forwardedFor) THEN Some(Trim(SplitFirst(Val(forwardedFor), ",")))
     ELSE IF Truthy(realIp) THEN realIp
     ELSE IF Truthy(cfConnectingIp) THEN cfConnectingIp
     ELSE None

getGeolocation(req) ==
  [ country |-> Or(req.headers.cfIpcountry,
                   Or(req.headers.awsCountry, Or(req.headers.xGeoCountry, None))),
    city |-> Or(req.headers.cfIpcity,
                Or(req.headers.awsCity, Or(req.headers.xGeoCity, None))) ]

\* shouldSkip with the .png test left out
shouldSkipWithoutPng(pathname) ==
  \/ pathname = <<"/">>
  \/ StartsWith(pathname, <<"/", "a", "p", "i", "/">>)
  \/ StartsWith(pathname, <<"/", "d", "a", "s", "h", "b", "o", "a", "r", "d">>)
  \/ StartsWith(pathname, <<"/", "_", "n", "e", "x", "t", "/">>)
  \/ StartsWith(pathname, <<"/", "c", "l", "o", "a", "k", "e", "d", "/">>)
  \/ EndsWith(pathname, <<".", "i", "c", "o">>)
  \/ SplitLength(pathname, "/") > 2

shouldSkip(pathname) ==
  \/ pathname = <<"/">>
  \/ StartsWith(pathname, <<"/", "a", "p", "i", "/">>)
  \/ StartsWith(pathname, <<"/", "d", "a", "s", "h", "b", "o", "a", "r", "d">>)
  \/ StartsWith(pathname, <<"/", "_", "n", "e", "x", "t", "/">>)
  \/ StartsWith(pathname, <<"/", "c", "l", "o", "a", "k", "e", "d", "/">>)
  \/ EndsWith(pathname, <<".", "p", "n", "g">>)
  \/ EndsWith(pathname, <<".", "i", "c", "o">>)
  \/ SplitLength(pathname, "/") > 2

\* @/lib/utils/is-bot: the user-agent matches a known social-media or
\* search-bot signature.
BotSignatures == { <<"T", "w", "i", "t", "t", "e", "r", "b", "o", "t">>, <<"f", "a", "c", "e", "b", "o", "o", "k", "e", "x", "t", "e", "r", "n", "a", "l", "h", "i", "t">>, <<"G", "o", "o", "g", "l", "e", "b", "o", "t">> }

isBot(userAgent) == \E sig \in BotSignatures : Includes(userAgent, sig)

\* the bot test with its sense inverted
botShortCircuitInverted(userAgent) == Truthy(userAgent) /\ ~isBot(Val(userAgent))

\* if (userAgent && isBot(userAgent))
botShortCircuit(userAgent) == Truthy(userAgent) /\ isBot(Val(userAgent))

\* @/lib/countries: the static country -> continent table; an unresolved
\* field falls back to the sentinel.
getCountryContinentCode(country) ==
  CASE country = <<"F", "R">> -> <<"E", "U">>
    [] country = <<"D", "E">> -> <<"E", "U">>
    [] country = <<"B", "R">> -> <<"S", "A">>
    [] country = <<"U", "S">> -> <<"N", "A">>
    [] OTHER -> <<"U", "n", "k", "n", "o", "w", "n">>

isLocalhost(host) == Includes(host, <<"l", "o", "c", "a", "l", "h", "o", "s", "t">>) \/ Includes(host, <<"1", "2", "7", ".", "0", ".", "0", ".", "1">>)

\* the country without its last fallback
countryWithoutDefault(req) == Or(req.geo, getGeolocation(req).country)

\* the ?geo= override honoured on a loopback host only
countryLocalOverride(req) ==
  Or(IF isLocalhost(req.host) THEN req.geo ELSE None,
     Or(getGeolocation(req).country,
        Some(IF isLocalhost(req.host) THEN <<"U", "S">> ELSE <<"U", "n", "k", "n", "o", "w", "n">>)))

\* const country = simCountry || geo.country || (isLocalhost ? "US" : "Unknown")
country(req) ==
  Or(req.geo, Or(getGeolocation(req).country,
                 Some(IF isLocalhost(req.host) THEN <<"U", "S">> ELSE <<"U", "n", "k", "n", "o", "w", "n">>)))

\* const city = geo.city || (isLocalhost ? "San Francisco" : "Unknown")
city(req) ==
  Or(getGeolocation(req).city,
     Some(IF isLocalhost(req.host) THEN <<"S", "a", "n", " ", "F", "r", "a", "n", "c", "i", "s", "c", "o">> ELSE <<"U", "n", "k", "n", "o", "w", "n">>))

\* const continent = country && country !== "Unknown" ? getCountryContinentCode(country) : ...
continent(c, host) ==
  IF Truthy(c) /\ Val(c) # <<"U", "n", "k", "n", "o", "w", "n">>
  THEN Some(getCountryContinentCode(Val(c)))
  ELSE Some(IF isLocalhost(host) THEN <<"N", "A">> ELSE <<"U", "n", "k", "n", "o", "w", "n">>)

\* process.env.NODE_ENV === "production" ? "http://localhost:3000" : origin
internalOrigin(nodeEnv, req) ==
  IF nodeEnv = "production" THEN <<"h", "t", "t", "p", ":", "/", "/", "l", "o", "c", "a", "l", "h", "o", "s", "t", ":", "3", "0", "0", "0">> ELSE Origin(req)

\* the argument of fetch: encodeURI of the template literal, kept apart by
\* placeholder (encodeURI works character by character), and the two headers
fetchCall(nodeEnv, req) ==
  [ origin    |-> encodeURI(internalOrigin(nodeEnv, req)),
    domain    |-> encodeURI(req.host),
    alias     |-> encodeURI(req.pathname),
    country   |-> encodeURI(TemplateString(country(req))),
    city      |-> encodeURI(TemplateString(city(req))),
    continent |-> encodeURI(TemplateString(continent(country(req), req.host))),
    ip        |-> encodeURI(TemplateString(getIpAddress(req))),
    userAgent |-> OrEmpty(req.headers.userAgent),
    referer   |-> OrEmpty(req.headers.referer) ]

\* validation without the protocol allow-list
validateAnyProtocol(url, req) ==
  LET parsedUrl == URL(url, Some(RequestUrl(req)))
      fallbackUrl == URL(<<"h", "t", "t", "p", "s", ":", "/", "/">> \o url, None)
  IN IF parsedUrl.ok THEN Some(Href(parsedUrl))
     ELSE IF fallbackUrl.ok THEN Some(Href(fallbackUrl))
     ELSE None

\* the try / catch around new URL(data.url, request.url): {} when the url is
\* refused, the normalised absolute URL otherwise
validate(url, req) ==
  LET parsedUrl == URL(url, Some(RequestUrl(req)))
      fallbackUrl == URL(<<"h", "t", "t", "p", "s", ":", "/", "/">> \o url, None)
  IN IF parsedUrl.ok
     THEN IF Protocol(parsedUrl) # <<"h", "t", "t", "p", ":">> /\ Protocol(parsedUrl) # <<"h", "t", "t", "p", "s", ":">>
          THEN None
          ELSE Some(Href(parsedUrl))
     ELSE IF fallbackUrl.ok
          THEN IF Protocol(fallbackUrl) # <<"h", "t", "t", "p", "s", ":">> THEN None ELSE Some(Href(fallbackUrl))
          ELSE None

Continue == [kind |-> "Continue", target |-> << >>]
NoDecision == [kind |-> "None", target |-> << >>]

\* the cloaked path built with encodeURI in place of encodeURIComponent
dispatchEncodeURI(validated, cloaking, req) ==
  IF cloaking = Some(TRUE)
  THEN [kind |-> "Rewrite",
        target |-> Href(URL(<<"/", "c", "l", "o", "a", "k", "e", "d", "/">> \o encodeURI(validated), Some(RequestUrl(req))))]
  ELSE [kind |-> "Redirect", target |-> validated]

\* if (data.cloaking) NextResponse.rewrite(...) else NextResponse.redirect(redirectUrl)
dispatch(validated, cloaking, req) ==
  IF cloaking = Some(TRUE)
  THEN [kind |-> "Rewrite",
        target |-> Href(URL(<<"/", "c", "l", "o", "a", "k", "e", "d", "/">> \o encodeURIComponent(validated),
                            Some(RequestUrl(req))))]
  ELSE [kind |-> "Redirect", target |-> validated]

---------------------------------------------------------------------------
(* The handling of one request                                             *)

\* a path outside config.matcher never reaches the middleware
NotMatched ==
  /\ pc = "received"
  /\ ~configMatcher(request.pathname)
  /\ pc' = "unmatched"
  /\ UNCHANGED <<request, call, resolver, data, redirectUrl, decision>>
  /\ UNCHANGED dbVars

\* if (isProtectedRoute(req)) await auth.protect(): the visitor is not signed
\* in and Clerk answers in the middleware's place
AuthProtectTerminates ==
  /\ pc = "received"
  /\ configMatcher(request.pathname)
  /\ isProtectedRoute(request)
  /\ pc' = "protected"
  /\ UNCHANGED <<request, call, resolver, data, redirectUrl, decision>>
  /\ UNCHANGED dbVars

\* auth.protect() lets the visitor in; resolveLinkAndLogAnalytics returns
\* undefined for a protected route and clerkMiddleware lets the request on
ProtectedReturn ==
  /\ pc = "received"
  /\ configMatcher(request.pathname)
  /\ isProtectedRoute(request)
  /\ pc' = "done"
  /\ decision' = Continue
  /\ UNCHANGED <<request, call, resolver, data, redirectUrl>>
  /\ UNCHANGED dbVars

\* if (shouldSkip) return NextResponse.next()
SkipReturn ==
  /\ pc = "received"
  /\ configMatcher(request.pathname)
  /\ ~isProtectedRoute(request)
  /\ shouldSkip(request.pathname)
  /\ pc' = "done"
  /\ decision' = Continue
  /\ UNCHANGED <<request, call, resolver, data, redirectUrl>>
  /\ UNCHANGED dbVars

\* if (userAgent && isBot(userAgent)) return NextResponse.next()
BotReturn ==
  /\ pc = "received"
  /\ configMatcher(request.pathname)
  /\ ~isProtectedRoute(request)
  /\ ~shouldSkip(request.pathname)
  /\ botShortCircuit(request.headers.userAgent)
  /\ pc' = "done"
  /\ decision' = Continue
  /\ UNCHANGED <<request, call, resolver, data, redirectUrl>>
  /\ UNCHANGED dbVars

\* const response = await fetch(...): the call goes out
IssueFetch ==
  /\ pc = "received"
  /\ configMatcher(request.pathname)
  /\ ~isProtectedRoute(request)
  /\ ~shouldSkip(request.pathname)
  /\ ~botShortCircuit(request.headers.userAgent)
  /\ \E nodeEnv \in NodeEnvs : call' = Some(fetchCall(nodeEnv, request))
  /\ resolver' = [phase |-> "pending", status |-> 0]
  /\ pc' = "fetching"
  /\ UNCHANGED <<request, data, redirectUrl, decision>>
  /\ UNCHANGED dbVars

\* the promise of fetch rejects (connection refused, DNS, timeout); no try
\* encloses the await, so the middleware's own promise rejects
FetchRejects ==
  /\ pc = "fetching"
  /\ resolver' = [phase |-> "rejected", status |-> 0]
  /\ pc' = "thrown"
  /\ UNCHANGED <<request, call, data, redirectUrl, decision>>
  /\ UNCHANGED dbVars

\* if (!response.ok) return NextResponse.next()
ResponseNotOk ==
  /\ pc = "fetching"
  /\ \E status \in Statuses :
       /\ ~(status >= 200 /\ status <= 299)
       /\ resolver' = [phase |-> "answered", status |-> status]
  /\ pc' = "done"
  /\ decision' = Continue
  /\ UNCHANGED <<request, call, data, redirectUrl>>
  /\ UNCHANGED dbVars

\* response.ok: const data = await response.json()
ResponseOk ==
  /\ pc = "fetching"
  /\ \E status \in Statuses :
       /\ status >= 200 /\ status <= 299
       /\ resolver' = [phase |-> "answered", status |-> status]
  /\ pc' = "json"
  /\ UNCHANGED <<request, call, data, redirectUrl, decision>>
  /\ UNCHANGED dbVars

\* the body is not JSON: response.json() rejects, and nothing catches it
JsonRejects ==
  /\ pc = "json"
  /\ resolver' = [resolver EXCEPT !.phase = "notJson"]
  /\ pc' = "thrown"
  /\ UNCHANGED <<request, call, data, redirectUrl, decision>>
  /\ UNCHANGED dbVars

\* the body is a ResolutionResult: the rest of resolveLinkAndLogAnalytics
Dispatch ==
  /\ pc = "json"
  /\ \E d \in ResolutionResults :
       /\ data' = Some(d)
       /\ redirectUrl' = IF Truthy(d.url) THEN validate(Val(d.url), request) ELSE None
       /\ decision' = IF redirectUrl' = None THEN Continue
                      ELSE dispatch(Val(redirectUrl'), d.cloaking, request)
  /\ resolver' = [resolver EXCEPT !.phase = "json"]
  /\ pc' = "done"
  /\ UNCHANGED <<request, call>>
  /\ UNCHANGED dbVars
  /\ UNCHANGED dbVars

---------------------------------------------------------------------------
(* server/db/index.ts                                                      *)

MaxAccesses == 3

\* properties read through the `connection` proxy and through the `db` proxy
PoolProps == { "query", "end", "pool" }
DbProps == { "select", "insert", "query" }

\* typeof value === "function"
IsMethod(prop) == prop \in { "query", "end", "select", "insert" }

\* getConnection without the `if (!_connection)` guard
getConnectionUnguarded(conn, c) ==
  [connection |-> Some(c.pools + 1), created |-> [c EXCEPT !.pools = @ + 1]]

\* getConnection(): the module state after the call; the pool it returns is
\* .connection. A pool is named by its rank among the pools created.
getConnection(conn, c) ==
  IF conn = None
  THEN [connection |-> Some(c.pools + 1), created |-> [c EXCEPT !.pools = @ + 1]]
  ELSE [connection |-> conn, created |-> c]

\* getDb(): the module state after the call; the handle it returns is .db and
\* holds the pool drizzle was given.
getDb(db, conn, c) ==
  IF db = None
  THEN LET g == getConnection(conn, c)
       IN [db |-> Some([id |-> c.dbs + 1, pool |-> Val(g.connection)]),
           connection |-> g.connection,
           created |-> [g.created EXCEPT !.dbs = @ + 1]]
  ELSE [db |-> db, connection |-> conn, created |-> c]

\* connection.<prop>: the get trap of the connection proxy
ConnectionGet ==
  /\ Len(accesses) < MaxAccesses
  /\ \E prop \in PoolProps :
       LET g == getConnection(_connection, created)
       IN /\ _connection' = g.connection
          /\ created' = g.created
          /\ accesses' = Append(accesses, [proxy |-> "connection", prop |-> prop,
                                           instance |-> Val(g.connection),
                                           bound |-> IsMethod(prop)])
  /\ UNCHANGED _db
  /\ UNCHANGED mwVars

\* db.<prop>: the get trap of the db proxy
DbGet ==
  /\ Len(accesses) < MaxAccesses
  /\ \E prop \in DbProps :
       LET g == getDb(_db, _connection, created)
       IN /\ _db' = g.db
          /\ _connection' = g.connection
          /\ created' = g.created
          /\ accesses' = Append(accesses, [proxy |-> "db", prop |-> prop,
                                           instance |-> Val(g.db).id,
                                           bound |-> IsMethod(prop)])
  /\ UNCHANGED mwVars

\* the module as loaded: nothing is created at import time
InitDb ==
  /\ _connection = None
  /\ _db = None
  /\ created = [pools |-> 0, dbs |-> 0]
  /\ accesses = << >>

\* before any request
InitMiddleware ==
  /\ pc = "received"
  /\ call = None
  /\ resolver = [phase |-> "none", status |-> 0]
  /\ data = None
  /\ redirectUrl = None
  /\ decision = NoDecision

Init ==
  /\ request \in Requests
  /\ InitMiddleware
  /\ InitDb

Next ==
  \/ NotMatched
  \/ AuthProtectTerminates
  \/ ProtectedReturn
  \/ SkipReturn
  \/ BotReturn
  \/ IssueFetch
  \/ FetchRejects
  \/ ResponseNotOk
  \/ ResponseOk
  \/ JsonRejects
  \/ Dispatch

Spec == Init /\ [][Next]_vars

\* the database module alone, in a process that serves no request meanwhile
InitOfDb ==
  /\ request \in { r \in Requests : r.pathname = <<"/", "a", "p", "i", "/", "l", "i", "n", "k">> /\ r.geo = None
                                    /\ r.scheme = <<"h", "t", "t", "p", "s">>
                                    /\ \A f \in DOMAIN r.headers : r.headers[f] = None }
  /\ InitMiddleware
  /\ InitDb

NextDb ==
  \/ ConnectionGet
  \/ DbGet

SpecDb == InitOfDb /\ [][NextDb]_vars

---------------------------------------------------------------------------
(* Properties                                                              *)

Url(d) == Val(d).url
Cloaked == data # None /\ Val(data).cloaking = Some(TRUE)
HasHttpScheme(u) == StartsWith(u, <<"h", "t", "t", "p", ":", "/", "/">>) \/ StartsWith(u, <<"h", "t", "t", "p", "s", ":", "/", "/">>)
CallIssued == call # None
PipelineRan == pc = "done"

StaticAssetExtensions == { <<".", "p", "n", "g">>, <<".", "i", "c", "o">>, <<".", "j", "p", "g">> }

\* the number of non-empty segments of a path
SegmentCount(p) ==
  Cardinality({i \in 1..Len(p) : p[i] = "/" /\ i < Len(p) /\ p[i + 1] # "/"})

ReservedPath(p) ==
  \/ p = <<"/">>
  \/ StartsWith(p, <<"/", "a", "p", "i", "/">>)
  \/ StartsWith(p, <<"/", "d", "a", "s", "h", "b", "o", "a", "r", "d">>)
  \/ StartsWith(p, <<"/", "_", "n", "e", "x", "t", "/">>)
  \/ StartsWith(p, <<"/", "c", "l", "o", "a", "k", "e", "d", "/">>)
  \/ \E e \in StaticAssetExtensions : EndsWith(p, e)
  \/ SegmentCount(p) > 1

NeverResolved ==
  /\ call = None
  /\ pc \notin {"fetching", "json", "thrown"}
  /\ decision.kind \in {"None", "Continue"}
  /\ PipelineRan => decision = Continue

KnownBot(req) == req.headers.userAgent # None /\ isBot(Val(req.headers.userAgent))

\* C2: a request whose user-agent matches a bot signature is never sent to
\* the resolver (the test comes before the call) and ends in Continue, on a
\* single-segment alias too.
C2_BotsContinue == KnownBot(request) => NeverResolved

C2_Witness ==
  /\ KnownBot(request)
  /\ request.pathname = <<"/", "a", "b", "c">>
  /\ PipelineRan
  /\ decision = Continue
  /\ call = None

ResolverFailed ==
  \/ resolver.phase \in {"rejected", "notJson"}
  \/ resolver.phase = "answered" /\ ~(resolver.status >= 200 /\ resolver.status <= 299)

\* C3: when the resolver call fails (non-2xx status, network failure, body
\* that is not JSON) the pipeline ends in Continue and never in a thrown
\* error.
C3_ResolverFailureContinues ==
  ResolverFailed => pc = "done" /\ decision = Continue

\* u starts with a scheme name other than http and https
NamesOtherScheme(u) ==
  LET t == Trim(u)
      i == IndexOfAny(t, {":"})
  IN /\ i >= 2 /\ i <= Len(t)
     /\ \A j \in 1..(i - 1) : IsAlpha(t[j])
     /\ ToLowerCase(SubSeq(t, 1, i - 1)) \notin {<<"h", "t", "t", "p">>, <<"h", "t", "t", "p", "s">>}

C5_SchemelessGetsHttps ==
  PipelineRan /\ data # None /\ Url(data) = Some(<<"e", "x", "a", "m", "p", "l", "e", ".", "c", "o", "m", "/", "p", "a", "g", "e">>) /\ ~Cloaked
    => decision = [kind |-> "Redirect", target |-> <<"h", "t", "t", "p", "s", ":", "/", "/", "e", "x", "a", "m", "p", "l", "e", ".", "c", "o", "m", "/", "p", "a", "g", "e">>]

CloakOrRedirect ==
  PipelineRan /\ redirectUrl # None =>
    IF Cloaked
    THEN /\ decision.kind = "Rewrite"
         /\ decision.target =
              Origin(request) \o <<"/", "c", "l", "o", "a", "k", "e", "d", "/">> \o encodeURIComponent(Val(redirectUrl))
    ELSE decision = [kind |-> "Redirect", target |-> Val(redirectUrl)]

\* C6 as stated: a validated url is rewritten to /cloaked/<encoded url> when
\* cloaking is true, "https://example.com" to exactly
\* /cloaked/https%3A%2F%2Fexample.com, and redirected otherwise.
C6_AsStated ==
  /\ CloakOrRedirect
  /\ PipelineRan /\ Cloaked /\ Url(data) = Some(<<"h", "t", "t", "p", "s", ":", "/", "/", "e", "x", "a", "m", "p", "l", "e", ".", "c", "o", "m">>) =>
       decision.target = Origin(request) \o <<"/", "c", "l", "o", "a", "k", "e", "d", "/", "h", "t", "t", "p", "s", "%", "3", "A", "%", "2", "F", "%", "2", "F", "e", "x", "a", "m", "p", "l", "e", ".", "c", "o", "m">>

\* C6: a validated url is rewritten to /cloaked/<encoded url> when cloaking is
\* true and never redirected, is redirected when cloaking is absent or false
\* and never rewritten; the url encoded is the parser's serialisation, so
\* "https://example.com" gives /cloaked/https%3A%2F%2Fexample.com%2F.
C6_CloakOrRedirect ==
  /\ CloakOrRedirect
  /\ PipelineRan /\ Cloaked /\ Url(data) = Some(<<"h", "t", "t", "p", "s", ":", "/", "/", "e", "x", "a", "m", "p", "l", "e", ".", "c", "o", "m">>) =>
       /\ redirectUrl = Some(<<"h", "t", "t", "p", "s", ":", "/", "/", "e", "x", "a", "m", "p", "l", "e", ".", "c", "o", "m", "/">>)
       /\ decision.target = Origin(request) \o <<"/", "c", "l", "o", "a", "k", "e", "d", "/", "h", "t", "t", "p", "s", "%", "3", "A", "%", "2", "F", "%", "2", "F", "e", "x", "a", "m", "p", "l", "e", ".", "c", "o", "m", "%", "2", "F">>
  /\ PipelineRan /\ ~Cloaked /\ data # None /\ Url(data) = Some(<<"h", "t", "t", "p", "s", ":", "/", "/", "e", "x", "a", "m", "p", "l", "e", ".", "c", "o", "m">>) =>
       decision = [kind |-> "Redirect", target |-> <<"h", "t", "t", "p", "s", ":", "/", "/", "e", "x", "a", "m", "p", "l", "e", ".", "c", "o", "m", "/">>]

C6_Witness ==
  /\ PipelineRan
  /\ Cloaked
  /\ Url(data) = Some(<<"h", "t", "t", "p", "s", ":", "/", "/", "e", "x", "a", "m", "p", "l", "e", ".", "c", "o", "m">>)
  /\ decision.kind = "Rewrite"

NoIpHeaders(req) ==
  /\ req.headers.xForwardedFor = None
  /\ req.headers.xRealIp = None
  /\ req.headers.cfConnectingIp = None

\* C7: without any of the three IP headers the derived IP is undefined and
\* the ip parameter of the resolver call is the empty string.
C7_NoIpIsEmpty ==
  CallIssued /\ NoIpHeaders(request) =>
    /\ getIpAddress(request) = None
    /\ Val(call).ip = << >>

NotAString == { << >>, <<"u", "n", "d", "e", "f", "i", "n", "e", "d">>, <<"n", "u", "l", "l">> }

C10_SingleInstances ==
  /\ created.pools <= 1 /\ created.dbs <= 1
  /\ accesses = << >> => created.pools = 0 /\ created.dbs = 0 /\ _connection = None /\ _db = None
  /\ (_connection = None) = (created.pools = 0)
  /\ (_db = None) = (created.dbs = 0)
  /\ \A i, j \in 1..Len(accesses) :
       accesses[i].proxy = accesses[j].proxy => accesses[i].instance = accesses[j].instance
  /\ \A i \in 1..Len(accesses) :
       /\ accesses[i].proxy = "connection" => _connection = Some(accesses[i].instance)
       /\ accesses[i].proxy = "db" => _db # None /\ Val(_db).id = accesses[i].instance
  /\ _db # None => _connection = Some(Val(_db).pool)

C10_Witness ==
  /\ Len(accesses) = 3
  /\ accesses[1].proxy = "db"
  /\ accesses[2].proxy = "connection"
  /\ accesses[3].proxy = "db"
  /\ created = [pools |-> 1, dbs |-> 1]
===========================================================================
